---------------------------- MODULE Spec2Model ----------------------------
(***************************************************************************)
(* Model of app/etl_central/assets/ingresos_detallado.py: the extract,     *)
(* transform, key-generation and load steps of the "Ingresos Detallado"    *)
(* pipeline, together with the part of the PostgreSQL storage layer whose  *)
(* behaviour the load functions rely on (one transaction per connection,   *)
(* primary key on id, row and table locks, rollback when the connection    *)
(* is closed without a commit).                                            *)
(***************************************************************************)
EXTENDS Integers, Sequences, FiniteSets, TLC

(***************************************************************************)
(* Bounds of the model.                                                    *)
(***************************************************************************)
MaxRows == 2          \* longest record set handed to a load function

Procs == {1, 2}       \* writers (independent pipeline runs)
Ids == {"k1", "k2"}   \* values of the id column
Vals == {"x", "y"}    \* values of the non-key columns of a row (taken together)

NoErr == [type |-> "none", msg |-> "none", cause |-> "none"]

VARIABLES
    schema,     \* TRUE when the relation nuevo_leon_ingresos_detallado exists
    table,      \* committed rows of the relation, in heap order
    pc,         \* pc[p]: where writer p is inside its load invocation
    op,         \* op[p]: the load function p is running
    df,         \* df[p]: the record set p was given
    idx,        \* idx[p]: rows of df[p] the running statement has processed
    wr,         \* wr[p]: uncommitted writes of p's transaction
    trunc,      \* trunc[p]: p's transaction has truncated the relation
    rowlock,    \* rowlock[i]: the writer holding the row lock of id i, for locked ids
    tablock,    \* tablock[p]: table lock p's transaction holds
    err,        \* err[p]: the exception the invocation raised to its caller
    snap,       \* snap[p]: the committed rows when p's invocation started
    fault,      \* fault[p]: a storage fault from outside hit the invocation
    didTrunc,   \* didTrunc[p]: the invocation executed its TRUNCATE
    ensured,    \* ensured[p]: the invocation has run metadata.create_all
    calls,      \* calls[p]: invocations p has completed
    prev        \* prev[p]: the invocation p completed last

dbVars == <<schema, table, pc, op, df, idx, wr, trunc, rowlock, tablock, err,
            snap, fault, didTrunc, ensured, calls, prev>>

VARIABLES
    sheet,      \* the raw sheet handed to the transform step
    trPc,       \* "start" before the transform runs, "done" after
    trRaised,   \* the exception the transform raised, or "none"
    trOut       \* the rows the transform returned

trVars == <<sheet, trPc, trRaised, trOut>>

VARIABLES
    hashseed,   \* hashseed[p]: the string-hash key of the interpreter p runs in
    kin,        \* kin[p]: the transformed rows run p works on
    kdf,        \* kdf[p]: those rows with their id
    kstage      \* kstage[p]: "new", "extracted" or "keyed"

keyVars == <<hashseed, kin, kdf, kstage>>

VARIABLES
    xPc,        \* where the extract call is
    xArgs,      \* its arguments
    xOut,       \* what it returned or raised
    xFailed,    \* the step inside its try block that failed, or "none"
    ioLog,      \* operations attempted on object storage and on the storage client
    lOut        \* the load call made: its selector, what it raised, the state before

ioVars == <<xPc, xArgs, xOut, xFailed, ioLog, lOut>>

nonDbVars == <<trVars, keyVars, ioVars>>

(***************************************************************************)
(* Record sets and relations.                                              *)
(***************************************************************************)
Rows == [id : Ids, val : Vals]

SeqsUpTo(S, n) == UNION {[1..k -> S] : k \in 0..n}

RowIds(s) == {s[i].id : i \in 1..Len(s)}

DistinctIds(s) == \A i, j \in 1..Len(s) : s[i].id = s[j].id => i = j

\* get_ingresos_detallado_table: id is the primary key, so a stored relation
\* never holds two rows with one id.
PriorTables == {t \in SeqsUpTo(Rows, MaxRows) : DistinctIds(t)}

DataFrames == SeqsUpTo(Rows, MaxRows)

NoCall == [op |-> "none", outcome |-> "none", fault |-> FALSE]

(***************************************************************************)
(* The storage layer: writes of a transaction and their effect at commit.  *)
(***************************************************************************)
\* INSERT ... ON CONFLICT (id) DO UPDATE: the row is updated when a row with
\* its id is visible, inserted otherwise.
WriteKindInsertOnly(t, r) == "insert"

WriteKind(t, r) == IF r.id \in RowIds(t) THEN "update" ELSE "insert"

\* SET col = excluded.col for every column but id.
ApplyWrite(t, w) ==
    IF w.kind = "update"
    THEN [i \in 1..Len(t) |-> IF t[i].id = w.row.id THEN w.row ELSE t[i]]
    ELSE Append(t, w.row)

RECURSIVE ApplyWrites(_, _)
ApplyWrites(t, ws) ==
    IF ws = <<>> THEN t ELSE ApplyWrites(ApplyWrite(t, Head(ws)), Tail(ws))

\* The relation after a transaction commits.
ApplyTxn(t, tr, ws) == ApplyWrites(IF tr THEN <<>> ELSE t, ws)

WrittenIds(p) == {wr[p][i].row.id : i \in 1..Len(wr[p])}

\* The message each load function puts in front of the cause.
OpMessage(o) ==
    IF o = "single_load" THEN "Single load (upsert) failed" ELSE "Bulk load failed"

\* raise RuntimeError(f"... failed: {e}")
Wrap(o, cause) ==
    [type |-> "RuntimeError", msg |-> OpMessage(o), cause |-> cause]

\* The writers holding the row lock of id i: one or none.
Holders(i) == IF i \in DOMAIN rowlock THEN {rowlock[i]} ELSE {}

ReleaseRows(p) == [i \in {j \in DOMAIN rowlock : rowlock[j] # p} |-> rowlock[i]]

\* An exception inside the try block: leaving the with block closes the
\* connection, which rolls the transaction back, and the except clause wraps
\* the cause.
Raise(p, cause) ==
    /\ wr' = [wr EXCEPT ![p] = <<>>]
    /\ trunc' = [trunc EXCEPT ![p] = FALSE]
    /\ rowlock' = ReleaseRows(p)
    /\ tablock' = [tablock EXCEPT ![p] = "none"]
    /\ err' = [err EXCEPT ![p] = Wrap(op[p], cause)]
    /\ pc' = [pc EXCEPT ![p] = "RolledBack"]
    /\ UNCHANGED <<table, op, df, idx, snap, didTrunc, ensured, calls, prev>>
    /\ UNCHANGED nonDbVars

(***************************************************************************)
(* single_load and bulk_load, one action per step.                         *)
(***************************************************************************)
\* A load function is invoked with record set d.
Invoke(p, o, d) ==
    /\ pc[p] = "Idle"
    /\ op' = [op EXCEPT ![p] = o]
    /\ df' = [df EXCEPT ![p] = d]
    /\ idx' = [idx EXCEPT ![p] = 0]
    /\ err' = [err EXCEPT ![p] = NoErr]
    /\ snap' = [snap EXCEPT ![p] = table]
    /\ fault' = [fault EXCEPT ![p] = FALSE]
    /\ didTrunc' = [didTrunc EXCEPT ![p] = FALSE]
    /\ ensured' = [ensured EXCEPT ![p] = FALSE]
    /\ pc' = [pc EXCEPT ![p] = "Called"]
    /\ UNCHANGED <<schema, table, wr, trunc, rowlock, tablock, calls, prev>>
    /\ UNCHANGED nonDbVars

\* The first load of a run.
Call(p, o, d) ==
    /\ calls[p] = 0
    /\ Invoke(p, o, d)

\* The run loads the record set it has just loaded once more.
ReCall(p, o) ==
    /\ calls[p] = 1
    /\ Invoke(p, o, df[p])

\* metadata.create_all(engine): creates the relation when it is absent.
CreateAll(p) ==
    /\ pc[p] = "Called"
    /\ schema' = TRUE
    /\ ensured' = [ensured EXCEPT ![p] = TRUE]
    /\ pc' = [pc EXCEPT ![p] = "SchemaEnsured"]
    /\ UNCHANGED <<table, op, df, idx, wr, trunc, rowlock, tablock, err, snap,
                   fault, didTrunc, calls, prev>>
    /\ UNCHANGED nonDbVars

\* with postgresql_client.engine.connect() as conn
Connect(p) ==
    /\ pc[p] = "SchemaEnsured"
    /\ pc' = [pc EXCEPT ![p] = "Connected"]
    /\ UNCHANGED <<schema, table, op, df, idx, wr, trunc, rowlock, tablock,
                   err, snap, fault, didTrunc, ensured, calls, prev>>
    /\ UNCHANGED nonDbVars

\* conn.execute(update_stmt) starts: the statement takes the relation's
\* ROW EXCLUSIVE lock, which waits for an ACCESS EXCLUSIVE holder.
BeginUpsert(p) ==
    /\ pc[p] = "Connected"
    /\ op[p] = "single_load"
    /\ df[p] # <<>>
    /\ \A q \in Procs \ {p} : tablock[q] # "excl"
    /\ tablock' = [tablock EXCEPT ![p] = "rowx"]
    /\ pc' = [pc EXCEPT ![p] = "Upserting"]
    /\ UNCHANGED <<schema, table, op, df, idx, wr, trunc, rowlock, err, snap,
                   fault, didTrunc, ensured, calls, prev>>
    /\ UNCHANGED nonDbVars

\* values([]) builds an INSERT without values; the id column has no default
\* and is NOT NULL, so the statement is rejected.
EmptyInsert(p) ==
    /\ pc[p] \in {"Connected", "Truncated"}
    /\ op[p] = "single_load" => pc[p] = "Connected"
    /\ op[p] = "bulk_load" => pc[p] = "Truncated"
    /\ df[p] = <<>>
    /\ Raise(p, "NotNullViolation")
    /\ UNCHANGED <<schema, fault>>

UpsertRowAutocommit(p) ==
    LET r == df[p][idx[p] + 1] IN
    /\ pc[p] = "Upserting"
    /\ idx[p] < Len(df[p])
    /\ Holders(r.id) = {}
    /\ r.id \notin WrittenIds(p)
    /\ table' = ApplyWrite(table, [kind |-> WriteKind(table, r), row |-> r])
    /\ idx' = [idx EXCEPT ![p] = idx[p] + 1]
    /\ UNCHANGED <<schema, pc, op, df, wr, trunc, rowlock, tablock, err, snap,
                   fault, didTrunc, ensured, calls, prev>>
    /\ UNCHANGED nonDbVars

\* The statement proposes its next row: it waits while another transaction
\* holds the row's lock, then inserts or updates the row and keeps its lock.
UpsertRow(p) ==
    LET r == df[p][idx[p] + 1] IN
    /\ pc[p] = "Upserting"
    /\ idx[p] < Len(df[p])
    /\ Holders(r.id) = {}
    /\ r.id \notin WrittenIds(p)
    /\ wr' = [wr EXCEPT ![p] =
                Append(wr[p], [kind |-> WriteKind(table, r), row |-> r])]
    /\ rowlock' = [i \in DOMAIN rowlock \cup {r.id} |->
                        IF i = r.id THEN p ELSE rowlock[i]]
    /\ idx' = [idx EXCEPT ![p] = idx[p] + 1]
    /\ UNCHANGED <<schema, table, pc, op, df, trunc, tablock, err, snap,
                   fault, didTrunc, ensured, calls, prev>>
    /\ UNCHANGED nonDbVars

\* A second row of the same statement with an id the statement has already
\* inserted or updated: "ON CONFLICT DO UPDATE command cannot affect row a
\* second time".
UpsertTwice(p) ==
    LET r == df[p][idx[p] + 1] IN
    /\ pc[p] = "Upserting"
    /\ idx[p] < Len(df[p])
    /\ r.id \in WrittenIds(p)
    /\ Raise(p, "CardinalityViolation")
    /\ UNCHANGED <<schema, fault>>

\* The statement has processed every row.
EndExecute(p) ==
    /\ pc[p] \in {"Upserting", "Inserting"}
    /\ idx[p] = Len(df[p])
    /\ pc' = [pc EXCEPT ![p] = "Executed"]
    /\ UNCHANGED <<schema, table, op, df, idx, wr, trunc, rowlock, tablock,
                   err, snap, fault, didTrunc, ensured, calls, prev>>
    /\ UNCHANGED nonDbVars

TruncateAutocommit(p) ==
    /\ pc[p] = "Connected"
    /\ op[p] = "bulk_load"
    /\ \A q \in Procs \ {p} : tablock[q] = "none"
    /\ table' = <<>>
    /\ didTrunc' = [didTrunc EXCEPT ![p] = TRUE]
    /\ pc' = [pc EXCEPT ![p] = "Truncated"]
    /\ UNCHANGED <<schema, op, df, idx, wr, trunc, rowlock, tablock, err, snap,
                   fault, ensured, calls, prev>>
    /\ UNCHANGED nonDbVars

\* conn.execute(text("TRUNCATE TABLE ...")): takes the ACCESS EXCLUSIVE lock,
\* which waits for every other lock on the relation; the truncation is part
\* of the transaction.
Truncate(p) ==
    /\ pc[p] = "Connected"
    /\ op[p] = "bulk_load"
    /\ \A q \in Procs \ {p} : tablock[q] = "none"
    /\ trunc' = [trunc EXCEPT ![p] = TRUE]
    /\ tablock' = [tablock EXCEPT ![p] = "excl"]
    /\ didTrunc' = [didTrunc EXCEPT ![p] = TRUE]
    /\ pc' = [pc EXCEPT ![p] = "Truncated"]
    /\ UNCHANGED <<schema, table, op, df, idx, wr, rowlock, err, snap, fault,
                   ensured, calls, prev>>
    /\ UNCHANGED nonDbVars

\* conn.execute(table.insert(), records) starts.
BeginInsert(p) ==
    /\ pc[p] = "Truncated"
    /\ df[p] # <<>>
    /\ pc' = [pc EXCEPT ![p] = "Inserting"]
    /\ UNCHANGED <<schema, table, op, df, idx, wr, trunc, rowlock, tablock,
                   err, snap, fault, didTrunc, ensured, calls, prev>>
    /\ UNCHANGED nonDbVars

\* One row of the INSERT into the truncated relation.
InsertRow(p) ==
    LET r == df[p][idx[p] + 1] IN
    /\ pc[p] = "Inserting"
    /\ idx[p] < Len(df[p])
    /\ r.id \notin WrittenIds(p)
    /\ wr' = [wr EXCEPT ![p] = Append(wr[p], [kind |-> "insert", row |-> r])]
    /\ idx' = [idx EXCEPT ![p] = idx[p] + 1]
    /\ UNCHANGED <<schema, table, pc, op, df, trunc, rowlock, tablock, err,
                   snap, fault, didTrunc, ensured, calls, prev>>
    /\ UNCHANGED nonDbVars

\* A row whose id the INSERT has already written violates the primary key.
InsertDuplicate(p) ==
    LET r == df[p][idx[p] + 1] IN
    /\ pc[p] = "Inserting"
    /\ idx[p] < Len(df[p])
    /\ r.id \in WrittenIds(p)
    /\ Raise(p, "UniqueViolation")
    /\ UNCHANGED <<schema, fault>>

\* conn.commit()
Commit(p) ==
    /\ pc[p] = "Executed"
    /\ table' = ApplyTxn(table, trunc[p], wr[p])
    /\ wr' = [wr EXCEPT ![p] = <<>>]
    /\ trunc' = [trunc EXCEPT ![p] = FALSE]
    /\ rowlock' = ReleaseRows(p)
    /\ tablock' = [tablock EXCEPT ![p] = "none"]
    /\ pc' = [pc EXCEPT ![p] = "Committed"]
    /\ UNCHANGED <<schema, op, df, idx, err, snap, fault, didTrunc, ensured,
                   calls, prev>>
    /\ UNCHANGED nonDbVars

\* A storage-layer error that does not depend on the data (the server is
\* unreachable, the connection drops, a statement is cancelled) at any call
\* inside the try block.
StorageFault(p) ==
    /\ pc[p] \in {"Called", "SchemaEnsured", "Connected", "Upserting",
                  "Truncated", "Inserting", "Executed"}
    /\ fault' = [fault EXCEPT ![p] = TRUE]
    /\ Raise(p, "OperationalError")
    /\ UNCHANGED schema

\* The invocation returns or raises to its caller.
Return(p) ==
    /\ pc[p] \in {"Committed", "RolledBack"}
    /\ prev' = [prev EXCEPT ![p] = [op |-> op[p], outcome |-> pc[p],
                                    fault |-> fault[p]]]
    /\ calls' = [calls EXCEPT ![p] = calls[p] + 1]
    /\ pc' = [pc EXCEPT ![p] = "Idle"]
    /\ UNCHANGED <<schema, table, op, df, idx, wr, trunc, rowlock, tablock,
                   err, snap, fault, didTrunc, ensured>>
    /\ UNCHANGED nonDbVars

\* Both transactions wait for a row lock the other holds: the server's
\* deadlock detector aborts one of them.
Waiting(p) ==
    /\ pc[p] = "Upserting"
    /\ idx[p] < Len(df[p])
    /\ Holders(df[p][idx[p] + 1].id) \ {p} # {}

DeadlockAbort(p) ==
    /\ Waiting(p)
    /\ \E q \in Holders(df[p][idx[p] + 1].id) : Waiting(q)
    /\ Raise(p, "DeadlockDetected")
    /\ UNCHANGED <<schema, fault>>

(***************************************************************************)
(* Text.  A string is a sequence of one-character strings.                 *)
(***************************************************************************)
DigitChars == <<"0", "1", "2", "3", "4", "5", "6", "7", "8", "9">>
Digit == {DigitChars[k] : k \in 1..10}
LowerChars == <<"a", "b", "c", "d", "e", "f", "g", "h", "i", "j", "k", "l", "m",
                "n", "o", "p", "q", "r", "s", "t", "u", "v", "w", "x", "y", "z">>
UpperChars == <<"A", "B", "C", "D", "E", "F", "G", "H", "I", "J", "K", "L", "M",
                "N", "O", "P", "Q", "R", "S", "T", "U", "V", "W", "X", "Y", "Z">>
Upper == {UpperChars[k] : k \in 1..26}
\* \w of the re module, on the characters the model uses.
Word == Digit \cup Upper \cup {LowerChars[k] : k \in 1..26} \cup {"_"}

\* str.lower()
LowerChar(c) ==
    IF c \in Upper THEN LowerChars[CHOOSE k \in 1..26 : UpperChars[k] = c] ELSE c

Lower(s) == [k \in 1..Len(s) |-> LowerChar(s[k])]

\* A column value that is an int in some rows and a str in others.
PyInt(n) == [t |-> "int", v |-> n]
PyStr(x) == [t |-> "str", v |-> x]

\* int() of a string of digits.
RECURSIVE ToInt(_)
ToInt(s) ==
    IF s = <<>> THEN 0
    ELSE 10 * ToInt(SubSeq(s, 1, Len(s) - 1))
         + (CHOOSE d \in 0..9 : DigitChars[d + 1] = s[Len(s)])

\* str() of a natural number.
RECURSIVE Decimal(_)
Decimal(n) ==
    IF n < 10 THEN <<DigitChars[n + 1]>>
    ELSE Decimal(n \div 10) \o <<DigitChars[(n % 10) + 1]>>

\* The format specification 02d.
Format02d(n) == IF n < 10 THEN <<"0">> \o Decimal(n) ELSE Decimal(n)

\* str.strip()
RECURSIVE Strip(_)
Strip(s) ==
    IF s = <<>> THEN s
    ELSE IF Head(s) = " " THEN Strip(Tail(s))
    ELSE IF s[Len(s)] = " " THEN Strip(SubSeq(s, 1, Len(s) - 1))
    ELSE s

\* ' '.join(cells)
RECURSIVE Join(_)
Join(cells) ==
    IF cells = <<>> THEN <<>>
    ELSE IF Len(cells) = 1 THEN cells[1]
    ELSE cells[1] \o <<" ">> \o Join(Tail(cells))

StartsWith(s, i, lit) ==
    /\ i + Len(lit) - 1 <= Len(s)
    /\ \A k \in 1..Len(lit) : s[i + k - 1] = lit[k]

\* Length of the longest run of characters of class C that starts at s[i].
RunLen(s, i, C) ==
    CHOOSE n \in 0..(Len(s) - i + 1) :
        /\ \A k \in 0..(n - 1) : s[i + k] \in C
        /\ i + n > Len(s) \/ s[i + n] \notin C

(***************************************************************************)
(* transform_ingresos_detallado_data                                       *)
(***************************************************************************)
HeaderRow == 3
FirstCol == 1
LastCol == 8
Window1Start == 7
Window1End == 44
Window2Start == 45
Window2End == 76

month_map == <<<<"e", "n", "e", "r", "o">>,
               <<"f", "e", "b", "r", "e", "r", "o">>,
               <<"m", "a", "r", "z", "o">>,
               <<"a", "b", "r", "i", "l">>,
               <<"m", "a", "y", "o">>,
               <<"j", "u", "n", "i", "o">>,
               <<"j", "u", "l", "i", "o">>,
               <<"a", "g", "o", "s", "t", "o">>,
               <<"s", "e", "p", "t", "i", "e", "m", "b", "r", "e">>,
               <<"o", "c", "t", "u", "b", "r", "e">>,
               <<"n", "o", "v", "i", "e", "m", "b", "r", "e">>,
               <<"d", "i", "c", "i", "e", "m", "b", "r", "e">>>>

KnownMonth(w) == \E k \in 1..Len(month_map) : month_map[k] = w

MonthNumber(w) == CHOOSE k \in 1..Len(month_map) : month_map[k] = w

LitAl == <<"a", "l", " ">>
LitDe == <<" ", "d", "e", " ">>

NoMatch == [found |-> FALSE, day |-> <<>>, month |-> <<>>, year |-> <<>>]

\* The ways r'al (\d{1,2}) de (\w+) de (\d{4})' matches at position i: the
\* lengths <<n, m>> of the day and month groups.
MatchLens(s, i) ==
    IF ~StartsWith(s, i, LitAl) THEN {}
    ELSE LET j == i + Len(LitAl) IN
         {nm \in {n \in {1, 2} : n <= RunLen(s, j, Digit)
                                  /\ StartsWith(s, j + n, LitDe)}
                 \X (1..Len(s)) :
            LET k == j + nm[1] + Len(LitDe)
                y == k + nm[2] + Len(LitDe)
            IN /\ nm[2] <= RunLen(s, k, Word)
               /\ StartsWith(s, k + nm[2], LitDe)
               /\ 4 <= RunLen(s, y, Digit)}

\* The match at position i: both groups are greedy, the day group first.
MatchAt(s, i) ==
    LET L == MatchLens(s, i)
        n == CHOOSE a \in {nm[1] : nm \in L} : \A nm \in L : nm[1] <= a
        m == CHOOSE b \in {nm[2] : nm \in {x \in L : x[1] = n}} :
                 \A nm \in {x \in L : x[1] = n} : nm[2] <= b
        j == i + Len(LitAl)
        k == j + n + Len(LitDe)
        y == k + m + Len(LitDe)
    IN IF L = {} THEN NoMatch
       ELSE [found |-> TRUE,
             day |-> SubSeq(s, j, j + n - 1),
             month |-> SubSeq(s, k, k + m - 1),
             year |-> SubSeq(s, y, y + 3)]

\* re.search: the match at the leftmost position that has one.
Search(s) ==
    LET at == {i \in 1..Len(s) : MatchLens(s, i) # {}}
    IN IF at = {} THEN NoMatch
       ELSE MatchAt(s, CHOOSE i \in at : \A j \in at : i <= j)

\* date_cells and date_range_str: the cells of the header row, as strings,
\* stripped and joined by one space.
DateRangeStr(sh) ==
    Join([c \in 1..(LastCol - FirstCol) |-> Strip(sh.header[c])])

\* f"{day_n:02d}/{month_n:02d}/{year_n}"
FechaFinal(day_n, month_n, year_n) ==
    Format02d(day_n) \o <<"/">> \o Format02d(month_n) \o <<"/">> \o Decimal(year_n)

\* (month_n - 1) // 3 + 1
Cuarto(month_n) == (month_n - 1) \div 3 + 1

\* The rows of df.iloc[from:to] the sheet has, each with the date columns.
Window(sh, from, to, fecha, cuarto) ==
    LET last == IF sh.nrows < to THEN sh.nrows ELSE to
        n == IF last > from THEN last - from ELSE 0
    IN [k \in 1..n |-> [Concepto |-> <<from + k - 1, FirstCol>>,
                        Fecha |-> fecha, Cuarto |-> cuarto]]

\* The whole function: the header row is read (IndexError when the sheet has
\* no such row), the date is searched, the month is looked up (KeyError when
\* the word is no key of month_map), and the two windows are concatenated.
transform_ingresos_detallado_data ==
    /\ trPc = "start"
    /\ trPc' = "done"
    /\ sheet' = sheet
    /\ UNCHANGED <<dbVars, keyVars, ioVars>>
    /\ IF sheet.nrows <= HeaderRow
       THEN trRaised' = "IndexError" /\ trOut' = <<>>
       ELSE LET m == Search(DateRangeStr(sheet))
                w == Lower(m.month)
            IN IF m.found /\ ~KnownMonth(w)
               THEN trRaised' = "KeyError" /\ trOut' = <<>>
               ELSE LET fecha == IF m.found
                                 THEN FechaFinal(ToInt(m.day), MonthNumber(w),
                                                 ToInt(m.year))
                                 ELSE <<>>
                        cuarto == IF m.found THEN PyInt(Cuarto(MonthNumber(w)))
                                  ELSE PyStr(<<>>)
                    IN /\ trRaised' = "none"
                       /\ trOut' = Window(sheet, Window1Start, Window1End, fecha, cuarto)
                                   \o Window(sheet, Window2Start, Window2End, fecha, cuarto)

\* Header rows of the model: a first cell, a cell holding a date phrase, and
\* empty cells, which astype(str) turns into "nan".
Nan == <<"n", "a", "n">>
FirstCells == {Nan, <<"D", "e", "l", " ", "1", " ", "d", "e", " ", "e", "n", "e", "r", "o">>, <<" ", " ", "a", "l", " ", "1", " ", "d", "e", " ", "f", "o", "o", " ", "d", "e", " ", "2", "0", "2", "4", " ">>}
Days == {<<"5">>, <<"3", "1">>, <<"1", "2", "3">>}
MonthWords == {month_map[k] : k \in 1..Len(month_map)} \cup {<<"M", "a", "r", "z", "o">>, <<"m", "a", "r", "z", "z", "o">>}
Years == {<<"2", "0", "2", "4">>, <<"0", "9", "9", "9">>, <<"2", "4">>}
Phrases == {LitAl \o d \o LitDe \o w \o LitDe \o y : d \in Days, w \in MonthWords, y \in Years}
Headers == {<<a, ph, Nan, Nan, Nan, Nan, Nan>> : a \in FirstCells, ph \in Phrases}
SheetRows == {0, 4, 50, 80}
Sheets == [nrows : SheetRows, header : Headers]

InitTransform ==
    /\ sheet \in Sheets
    /\ trPc = "start"
    /\ trRaised = "none"
    /\ trOut = <<>>

(***************************************************************************)
(* generate_surrogate_key                                                  *)
(***************************************************************************)
HashBits == 8         \* width of a hash value in the model (64 in CPython)

\* The keys a process may draw for its string hash when it starts (the
\* default), or be given with PYTHONHASHSEED.
HashSeeds == {0, 1, 2}

Alphabet == DigitChars \o UpperChars \o LowerChars \o <<" ", ".", "/", "_", ")">>

\* ord(c), as the character's place in the model's alphabet.
Ord(c) == CHOOSE k \in 1..Len(Alphabet) : Alphabet[k] = c

RECURSIVE Mix(_, _)
Mix(h, x) ==
    IF x = <<>> THEN h
    ELSE Mix((h * 31 + Ord(Head(x))) % (2 ^ HashBits), Tail(x))

\* The built-in hash() of a str: a keyed hash of the characters whose key is
\* the process's, a signed integer of HashBits bits, never -1.
PyHash(seed, x) ==
    LET u == Mix((seed * 97 + 7) % (2 ^ HashBits), x)
        v == IF u >= 2 ^ (HashBits - 1) THEN u - 2 ^ HashBits ELSE u
    IN IF v = -1 THEN -2 ELSE v

Abs(n) == IF n < 0 THEN -n ELSE n

\* astype(str) of a column value.
AsStr(x) == IF x.t = "int" THEN Decimal(x.v) ELSE x.v

\* The id of one row: str(abs(hash(Concepto + Fecha + Cuarto))).
SurrogateKey(seed, r) ==
    Decimal(Abs(PyHash(seed, r.Concepto \o r.Fecha \o AsStr(r.Cuarto))))

generate_surrogate_key(d, seed) ==
    [k \in 1..Len(d) |->
        [Concepto |-> d[k].Concepto, Fecha |-> d[k].Fecha, Cuarto |-> d[k].Cuarto,
         val |-> d[k].val, id |-> SurrogateKey(seed, d[k])]]

\* Transformed rows of the model: a concept, the date columns of one
\* extraction, and the remaining columns.
Conceptos == {<<"A", ".">>, <<"B", ".">>}
DateColumns == {[Fecha |-> <<"3", "1", "/", "0", "3", "/", "2", "0", "2", "4">>, Cuarto |-> PyInt(1)],
                [Fecha |-> <<>>, Cuarto |-> PyStr(<<>>)]}
KeyInputs ==
    UNION {{[k \in 1..n |-> [Concepto |-> c[k], Fecha |-> dc.Fecha,
                             Cuarto |-> dc.Cuarto, val |-> v[k]]] :
                c \in [1..n -> Conceptos], v \in [1..n -> Vals], dc \in DateColumns} :
           n \in 0..MaxRows}

\* A pipeline run starts in a process of its own, which fixes the key of its
\* string hash; the second run is a later process given the same rows.
StartRun(p, seed, d) ==
    /\ kstage[p] = "new"
    /\ p = 2 => calls[1] = 1 /\ d = kin[1]
    /\ hashseed' = [hashseed EXCEPT ![p] = seed]
    /\ kin' = [kin EXCEPT ![p] = d]
    /\ kstage' = [kstage EXCEPT ![p] = "extracted"]
    /\ UNCHANGED <<kdf, dbVars, trVars, ioVars>>

GenerateKey(p) ==
    /\ kstage[p] = "extracted"
    /\ kdf' = [kdf EXCEPT ![p] = generate_surrogate_key(kin[p], hashseed[p])]
    /\ kstage' = [kstage EXCEPT ![p] = "keyed"]
    /\ UNCHANGED <<hashseed, kin, dbVars, trVars, ioVars>>

\* The keyed rows are loaded by upsert.
LoadKeyed(p) ==
    /\ kstage[p] = "keyed"
    /\ Call(p, "single_load", kdf[p])

InitKey ==
    /\ hashseed = [p \in Procs |-> 0]
    /\ kin = [p \in Procs |-> <<>>]
    /\ kdf = [p \in Procs |-> <<>>]
    /\ kstage = [p \in Procs |-> "new"]

(***************************************************************************)
(* extract_ingresos_detallado_data and load                                *)
(***************************************************************************)
None == "<None>"

\* reverse_quarter_map.get(quarter, quarter)
FileQuarter(quarter) ==
    CASE quarter = "Q1" -> "1T"
      [] quarter = "Q2" -> "2T"
      [] quarter = "Q3" -> "3T"
      [] quarter = "Q4" -> "4T"
      [] OTHER -> quarter

FileName(year, quarter) ==
    <<"F5_Edo_Ana_Ing_Det_LDF_", FileQuarter(quarter), year, ".xlsx">>

S3Key(year, quarter) == <<"finanzas/Ingresos_Detallado/raw/">> \o FileName(year, quarter)

\* f"s3://{bucket_name}/{s3_key}"
S3Path(a) == <<"s3://", a.bucket_name, "/">> \o S3Key(a.year, a.quarter)

NoOut == [raised |-> "none", empty |-> TRUE, ref |-> <<>>]

ExtractArgs == [year : {"2024"}, quarter : {"Q1", "Q4", "1T"},
                source : {"s3", "local"}, bucket_name : {None, "bucket"}]

ExtractCall(a) ==
    /\ xPc = "idle"
    /\ xArgs' = a
    /\ xPc' = "called"
    /\ UNCHANGED <<xOut, xFailed, ioLog, lOut, dbVars, trVars, keyVars>>

\* The two selector tests in front of the try block.
ExtractSelect ==
    /\ xPc = "called"
    /\ IF xArgs.source = "s3" /\ xArgs.bucket_name # None
       THEN xPc' = "s3" /\ xOut' = xOut
       ELSE xPc' = "done" /\ xOut' = [raised |-> "ValueError", empty |-> TRUE,
                                      ref |-> <<None>>]
    /\ UNCHANGED <<xArgs, xFailed, ioLog, lOut, dbVars, trVars, keyVars>>

ExtractExceptReraise(step) ==
    /\ xOut' = [raised |-> "Exception", empty |-> TRUE, ref |-> <<None>>]
    /\ xFailed' = step
    /\ xPc' = "done"

\* except Exception: the error is logged and (pd.DataFrame(), None) returned.
ExtractExcept(step) ==
    /\ xOut' = [raised |-> "none", empty |-> TRUE, ref |-> <<None>>]
    /\ xFailed' = step
    /\ xPc' = "done"

\* One call on object storage inside the try block: boto3.client("s3"),
\* get_object, Body.read(); each may raise.
S3Step(from, call, to, ok) ==
    /\ xPc = from
    /\ ioLog' = Append(ioLog, call)
    /\ IF ok THEN xPc' = to /\ UNCHANGED <<xOut, xFailed>>
       ELSE ExtractExcept(call)
    /\ UNCHANGED <<xArgs, lOut, dbVars, trVars, keyVars>>

S3Client(ok) == S3Step("s3", "boto3.client", "client", ok)
S3GetObject(ok) == S3Step("client", "get_object", "object", ok)
S3Read(ok) == S3Step("object", "Body.read", "bytes", ok)

\* pd.read_excel on the bytes; on success the sheet and its path are returned.
ReadExcel(ok) ==
    /\ xPc = "bytes"
    /\ IF ok
       THEN /\ xOut' = [raised |-> "none", empty |-> FALSE, ref |-> S3Path(xArgs)]
            /\ xPc' = "done"
            /\ xFailed' = xFailed
       ELSE ExtractExcept("read_excel")
    /\ UNCHANGED <<xArgs, ioLog, lOut, dbVars, trVars, keyVars>>

LoadMethods == {"insert", "upsert", "overwrite"}
Selectors == LoadMethods \cup {"merge", "UPSERT"}

\* PostgreSqlClient.insert, upsert and overwrite, as the design describes
\* them: insert appends and fails on an id that exists, upsert merges by id,
\* overwrite replaces the rows.
ClientInsert(t, d) ==
    IF DistinctIds(t \o d) THEN [table |-> t \o d, raised |-> "none"]
    ELSE [table |-> t, raised |-> "ConstraintViolation"]

RECURSIVE ClientUpsertRows(_, _)
ClientUpsertRows(t, d) ==
    IF d = <<>> THEN t
    ELSE ClientUpsertRows(
             ApplyWrite(t, [kind |-> WriteKind(t, Head(d)), row |-> Head(d)]),
             Tail(d))

ClientUpsert(t, d) == [table |-> ClientUpsertRows(t, d), raised |-> "none"]

ClientOverwrite(t, d) ==
    IF DistinctIds(d) THEN [table |-> d, raised |-> "none"]
    ELSE [table |-> t, raised |-> "ConstraintViolation"]

LoadFallbackUpsert(m, d) ==
    LET r == CASE m = "insert" -> ClientInsert(table, d)
               [] m = "overwrite" -> ClientOverwrite(table, d)
               [] OTHER -> ClientUpsert(table, d)
    IN /\ xPc = "done"
       /\ lOut.method = "none"
       /\ lOut' = [method |-> m, raised |-> r.raised, table |-> table, log |-> ioLog]
       /\ table' = r.table
       /\ ioLog' = Append(ioLog, "client")
       /\ UNCHANGED <<schema, pc, op, df, idx, wr, trunc, rowlock, tablock, err,
                      snap, fault, didTrunc, ensured, calls, prev>>
       /\ UNCHANGED <<xPc, xArgs, xOut, xFailed, trVars, keyVars>>

\* load: the selector picks the client operation; any other selector raises
\* ValueError.
load(m, d) ==
    LET r == CASE m = "insert" -> ClientInsert(table, d)
               [] m = "upsert" -> ClientUpsert(table, d)
               [] m = "overwrite" -> ClientOverwrite(table, d)
               [] OTHER -> [table |-> table, raised |-> "ValueError"]
    IN /\ xPc = "done"
       /\ lOut.method = "none"
       /\ lOut' = [method |-> m, raised |-> r.raised, table |-> table, log |-> ioLog]
       /\ table' = r.table
       /\ ioLog' = IF m \in LoadMethods THEN Append(ioLog, "client") ELSE ioLog
       /\ UNCHANGED <<schema, pc, op, df, idx, wr, trunc, rowlock, tablock, err,
                      snap, fault, didTrunc, ensured, calls, prev>>
       /\ UNCHANGED <<xPc, xArgs, xOut, xFailed, trVars, keyVars>>

NoLoad == [method |-> "none", raised |-> "none", table |-> <<>>, log |-> <<>>]

InitIo ==
    /\ xPc = "idle"
    /\ xArgs = [year |-> "2024", quarter |-> "Q1", source |-> "s3", bucket_name |-> None]
    /\ xOut = NoOut
    /\ xFailed = "none"
    /\ ioLog = <<>>
    /\ lOut = NoLoad

(***************************************************************************)
(* Specifications.                                                         *)
(***************************************************************************)
\* No row is locked, no invocation has started.
InitWriters ==
    /\ pc = [p \in Procs |-> "Idle"]
    /\ op = [p \in Procs |-> "none"]
    /\ df = [p \in Procs |-> <<>>]
    /\ idx = [p \in Procs |-> 0]
    /\ wr = [p \in Procs |-> <<>>]
    /\ trunc = [p \in Procs |-> FALSE]
    /\ rowlock = [i \in {} |-> 0]
    /\ tablock = [p \in Procs |-> "none"]
    /\ err = [p \in Procs |-> NoErr]
    /\ snap = [p \in Procs |-> <<>>]
    /\ fault = [p \in Procs |-> FALSE]
    /\ didTrunc = [p \in Procs |-> FALSE]
    /\ ensured = [p \in Procs |-> FALSE]
    /\ calls = [p \in Procs |-> 0]
    /\ prev = [p \in Procs |-> NoCall]

\* The relation holds any rows a relation with primary key id can hold, or
\* does not exist yet.
InitDb ==
    /\ table \in PriorTables
    /\ schema \in {x \in BOOLEAN : table # <<>> => x}
    /\ InitWriters

InitEmptyDb ==
    /\ table = <<>>
    /\ schema \in BOOLEAN
    /\ InitWriters

\* The transform step is not part of the run.
NoTransform ==
    /\ sheet = [nrows |-> 0, header |-> <<>>]
    /\ trPc = "off"
    /\ trRaised = "none"
    /\ trOut = <<>>

vars == <<dbVars, trVars, keyVars, ioVars>>

\* One writer running single_load and bulk_load invocations one after the
\* other.
NextLoad ==
    \/ \E o \in {"single_load", "bulk_load"}, d \in DataFrames : Call(1, o, d)
    \/ \E o \in {"single_load", "bulk_load"} : ReCall(1, o)
    \/ CreateAll(1)
    \/ Connect(1)
    \/ BeginUpsert(1)
    \/ EmptyInsert(1)
    \/ UpsertRow(1)
    \/ UpsertTwice(1)
    \/ EndExecute(1)
    \/ Truncate(1)
    \/ BeginInsert(1)
    \/ InsertRow(1)
    \/ InsertDuplicate(1)
    \/ Commit(1)
    \/ StorageFault(1)
    \/ Return(1)

InitLoadRun == InitDb /\ NoTransform /\ InitKey /\ InitIo

SpecLoad == InitLoadRun /\ [][NextLoad]_vars

\* Two writers, each running one single_load, in any interleaving.
NextConc ==
    \E p \in Procs :
        \/ \E d \in DataFrames : Call(p, "single_load", d)
        \/ CreateAll(p)
        \/ Connect(p)
        \/ BeginUpsert(p)
        \/ EmptyInsert(p)
        \/ UpsertRow(p)
        \/ UpsertTwice(p)
        \/ EndExecute(p)
        \/ Commit(p)
        \/ DeadlockAbort(p)
        \/ Return(p)

InitConcRun == InitDb /\ NoTransform /\ InitKey /\ InitIo

SpecConc == InitConcRun /\ [][NextConc]_vars

\* Two pipeline runs over the same rows, one process after the other: key
\* generation, then single_load.
NextKey ==
    \E p \in Procs :
        \/ \E seed \in HashSeeds, d \in KeyInputs : StartRun(p, seed, d)
        \/ GenerateKey(p)
        \/ LoadKeyed(p)
        \/ CreateAll(p)
        \/ Connect(p)
        \/ BeginUpsert(p)
        \/ EmptyInsert(p)
        \/ UpsertRow(p)
        \/ UpsertTwice(p)
        \/ EndExecute(p)
        \/ Commit(p)
        \/ Return(p)

InitKeyRun == InitEmptyDb /\ NoTransform /\ InitKey /\ InitIo

SpecKey == InitKeyRun /\ [][NextKey]_vars

\* One extract call, then one load call.
NextIo ==
    \/ \E a \in ExtractArgs : ExtractCall(a)
    \/ ExtractSelect
    \/ \E ok \in BOOLEAN : S3Client(ok)
    \/ \E ok \in BOOLEAN : S3GetObject(ok)
    \/ \E ok \in BOOLEAN : S3Read(ok)
    \/ \E ok \in BOOLEAN : ReadExcel(ok)
    \/ \E m \in Selectors, d \in DataFrames : load(m, d)

InitIoRun == InitDb /\ NoTransform /\ InitKey /\ InitIo

SpecIo == InitIoRun /\ [][NextIo]_vars

\* One transform call on a sheet.
NextTransform == transform_ingresos_detallado_data

InitTransformRun == InitEmptyDb /\ InitTransform /\ InitKey /\ InitIo

SpecTransform == InitTransformRun /\ [][NextTransform]_vars

(***************************************************************************)
(* Properties of the load functions.                                       *)
(***************************************************************************)
Final == {"Committed", "RolledBack"}

\* The rows of relation t with id i.
RowsOf(t, i) == {t[k] : k \in {j \in 1..Len(t) : t[j].id = i}}

\* t with the rows of record set d merged in by id: rows of t whose id is in
\* d take d's values in place, rows of d with a new id follow.
Merged(t, d) ==
    LET pick(i) == CHOOSE k \in 1..Len(d) : d[k].id = i
        new == {k \in 1..Len(d) : d[k].id \notin RowIds(t)}
        RECURSIVE rest(_)
        rest(k) == IF k > Len(d) THEN <<>>
                   ELSE IF k \in new THEN <<d[k]>> \o rest(k + 1)
                   ELSE rest(k + 1)
    IN [k \in 1..Len(t) |->
            IF t[k].id \in RowIds(d) THEN d[pick(t[k].id)] ELSE t[k]] \o rest(1)

\* C1: once bulk_load has executed its TRUNCATE, the committed rows stay the
\* rows the relation held before the call until the commit, and they are
\* those rows after an invocation that raised: the relation is never left
\* empty or partly loaded.
C1_OverwriteAtomic ==
    (/\ op[1] = "bulk_load"
     /\ didTrunc[1]
     /\ pc[1] \in {"Truncated", "Inserting", "Executed", "RolledBack"})
        => table = snap[1]

\* A bulk_load that raised after its TRUNCATE and after a row was written,
\* on a relation that held rows.
C1_Witness ==
    /\ op[1] = "bulk_load"
    /\ didTrunc[1]
    /\ pc[1] = "RolledBack"
    /\ idx[1] >= 1
    /\ snap[1] # <<>>
    /\ table = snap[1]

\* C2: when single_load has run on a record set (without a storage fault from
\* outside) and runs again on the same record set, the relation after the
\* second run is, row by row, the relation after the first.
C2_UpsertIdempotent ==
    (/\ calls[1] = 1
     /\ prev[1].op = "single_load"
     /\ ~prev[1].fault
     /\ op[1] = "single_load"
     /\ pc[1] \in Final)
        => table = snap[1]

\* Two committed single_load runs of a two-row record set.
C2_Witness ==
    /\ calls[1] = 1
    /\ prev[1].op = "single_load"
    /\ prev[1].outcome = "Committed"
    /\ op[1] = "single_load"
    /\ pc[1] = "Committed"
    /\ Len(df[1]) = 2
    /\ table = snap[1]

\* C3: after single_load (no storage fault from outside) the relation holds
\* exactly one row for each id of the input and each id it held before, every
\* id of the input carries the values of an input row, and the other rows
\* are unchanged.
C3_UpsertResult ==
    (/\ op[1] = "single_load"
     /\ pc[1] \in Final
     /\ ~fault[1])
        => /\ DistinctIds(table)
           /\ RowIds(table) = RowIds(df[1]) \cup RowIds(snap[1])
           /\ \A i \in RowIds(df[1]) : RowsOf(table, i) \subseteq RowsOf(df[1], i)
           /\ \A i \in RowIds(snap[1]) \ RowIds(df[1]) :
                  RowsOf(table, i) = RowsOf(snap[1], i)

\* C4: when two single_load invocations have interleaved and both have
\* returned, the relation holds exactly one row for each id of either input
\* and each prior id, and every row with an input's id is a row of one of
\* the two inputs.
C4_ConcurrentUpserts ==
    (\A p \in Procs : calls[p] = 1)
        => /\ DistinctIds(table)
           /\ RowIds(table) = UNION {RowIds(df[p]) \cup RowIds(snap[p]) : p \in Procs}
           /\ \A i \in UNION {RowIds(df[p]) : p \in Procs} :
                  RowsOf(table, i) \subseteq UNION {RowsOf(df[p], i) : p \in Procs}

\* C8: an invocation of single_load or bulk_load has ensured the schema
\* before it writes; nothing of its input is committed before its commit;
\* it commits only after every row was executed, and then the whole input is
\* applied; when it raises, the relation is as before the call and the error
\* is a RuntimeError naming the operation and holding the cause.
C8_LoadStateMachine ==
    /\ pc[1] \in {"Connected", "Upserting", "Truncated", "Inserting",
                  "Executed", "Committed"} => ensured[1] /\ schema
    /\ wr[1] # <<>> \/ trunc[1] => ensured[1] /\ schema
    /\ pc[1] \notin {"Idle", "Committed"} => table = snap[1]
    /\ pc[1] = "Committed" =>
          /\ idx[1] = Len(df[1])
          /\ err[1] = NoErr
          /\ table = IF op[1] = "bulk_load" THEN df[1] ELSE Merged(snap[1], df[1])
    /\ pc[1] = "RolledBack" =>
          /\ err[1].type = "RuntimeError"
          /\ op[1] = "single_load" => err[1].msg = "Single load (upsert) failed"
          /\ op[1] = "bulk_load" => err[1].msg = "Bulk load failed"
          /\ err[1].cause # "none"

\* A single_load that raised after it had written a row over a relation
\* that held rows.
C8_Witness ==
    /\ op[1] = "single_load"
    /\ pc[1] = "RolledBack"
    /\ idx[1] >= 1
    /\ snap[1] # <<>>
    /\ err[1].cause = "OperationalError"

(***************************************************************************)
(* Properties of key generation.                                           *)
(***************************************************************************)
SameBusinessKey(a, b) ==
    /\ a.Concepto = b.Concepto
    /\ a.Fecha = b.Fecha
    /\ a.Cuarto.t = b.Cuarto.t
    /\ AsStr(a.Cuarto) = AsStr(b.Cuarto)

\* C7: two runs in different processes over the same rows give every row the
\* same id, and after both have loaded the rows by upsert the relation holds
\* one row for each business key (concepto, fecha, cuarto).
C7_KeyStableAcrossRuns ==
    /\ (\A p \in Procs : kstage[p] = "keyed") =>
          \A k \in 1..Len(kdf[1]) : kdf[1][k].id = kdf[2][k].id
    /\ (\A p \in Procs : calls[p] = 1 /\ prev[p].outcome = "Committed") =>
          \A i, j \in 1..Len(table) :
              SameBusinessKey(table[i], table[j]) => (i = j)

(***************************************************************************)
(* Properties of extract and of the load selector.                         *)
(***************************************************************************)
\* C5: extract with a source other than s3 raises ValueError and has
\* attempted no operation on object storage; load with a selector other
\* than insert, upsert and overwrite raises ValueError, has attempted no
\* operation on the storage client and leaves the relation as it was.
C5_SelectorsFailFast ==
    /\ (xPc = "done" /\ xArgs.source # "s3") =>
          /\ xOut.raised = "ValueError"
          /\ \A k \in 1..Len(ioLog) : ioLog[k] = "client"
    /\ lOut.method \notin LoadMethods \cup {"none"} =>
          /\ lOut.raised = "ValueError"
          /\ ioLog = lOut.log
          /\ table = lOut.table

\* An extract call with source "local" that raised, followed by a load call
\* with selector "merge" that raised, on a relation that holds rows.
C5_Witness ==
    /\ xPc = "done"
    /\ xArgs.source = "local"
    /\ xOut.raised = "ValueError"
    /\ lOut.method = "merge"
    /\ lOut.raised = "ValueError"
    /\ table # <<>>

\* C6: an extract call with source s3 and a bucket name never raises; when a
\* step of its try block failed it returns an empty record set and no source
\* reference; it returns a source reference only when the three object
\* storage calls and the parse succeeded.
C6_ExtractSoftFailure ==
    (xPc = "done" /\ xArgs.source = "s3" /\ xArgs.bucket_name # None) =>
        /\ xOut.raised = "none"
        /\ (xFailed # "none") => (xOut.empty /\ xOut.ref = <<None>>)
        /\ (xOut.ref # <<None>>) =>
              /\ xFailed = "none"
              /\ ~xOut.empty
              /\ xOut.ref = S3Path(xArgs)
              /\ Len(ioLog) >= 3
              /\ SubSeq(ioLog, 1, 3) = <<"boto3.client", "get_object", "Body.read">>

\* The object was read and the parse of the spreadsheet failed.
C6_Witness ==
    /\ xPc = "done"
    /\ xArgs.source = "s3"
    /\ xFailed = "read_excel"
    /\ xOut.raised = "none"
    /\ xOut.empty
    /\ xOut.ref = <<None>>

(***************************************************************************)
(* Properties of the transform step.                                       *)
(***************************************************************************)
\* The text holds, somewhere, 'al {day} de {month} de {year}' with one of
\* the twelve month names.
HasDatePhrase(s) ==
    \E i \in 1..Len(s) :
        MatchLens(s, i) # {} /\ KnownMonth(Lower(MatchAt(s, i).month))

EmptyDate(r) == r.Fecha = <<>> /\ r.Cuarto.t = "str"

\* C9: on a sheet that has a header row the transform raises nothing; when
\* the header text holds no date phrase with a known month name every row
\* has an empty fecha and an empty cuarto; in every row fecha is empty
\* exactly when cuarto is.
C9_HeaderSoftFailure ==
    (trPc = "done" /\ sheet.nrows > HeaderRow) =>
        /\ trRaised = "none"
        /\ (~HasDatePhrase(DateRangeStr(sheet))) =>
              \A k \in 1..Len(trOut) : EmptyDate(trOut[k])
        /\ \A k \in 1..Len(trOut) :
              (trOut[k].Fecha = <<>>) <=> (trOut[k].Cuarto.t = "str")

\* The day of the phrase as two digits.
TwoDigits(d) == IF Len(d) = 1 THEN <<"0">> \o d ELSE d

\* C10: when the header's date phrase has a known month name, every row of
\* both windows has fecha = DD/MM/YYYY (the day and the month number as two
\* digits, the year as its four digits) and cuarto = (month - 1) div 3 + 1,
\* a number in 1..4.
C10_DateAndQuarter ==
    LET m == Search(DateRangeStr(sheet))
        mn == MonthNumber(Lower(m.month))
    IN (/\ trPc = "done"
        /\ trRaised = "none"
        /\ m.found
        /\ KnownMonth(Lower(m.month)))
           => \A k \in 1..Len(trOut) :
                 /\ trOut[k].Fecha =
                        TwoDigits(m.day) \o <<"/">> \o TwoDigits(Decimal(mn))
                        \o <<"/">> \o m.year
                 /\ Len(trOut[k].Fecha) = 10
                 /\ trOut[k].Cuarto.t = "int"
                 /\ trOut[k].Cuarto.v = (mn - 1) \div 3 + 1
                 /\ trOut[k].Cuarto.v \in 1..4
                 /\ (mn \in 1..3) => (trOut[k].Cuarto.v = 1)
                 /\ (mn \in 4..6) => (trOut[k].Cuarto.v = 2)
                 /\ (mn \in 7..9) => (trOut[k].Cuarto.v = 3)
                 /\ (mn \in 10..12) => (trOut[k].Cuarto.v = 4)

=============================================================================
